---- MODULE Spec2Model ----
(***************************************************************************)
(* Model of core/agent_loader.py (DynamicAgentLoader): the metadata cache, *)
(* the category scanners run by scan_all, reload_agent and the polling     *)
(* loop of watch_changes, as asyncio tasks that interleave at their        *)
(* suspension points (file reads in the thread pool, awaits of subscriber  *)
(* coroutines, the sleep between polls), over a file system that other     *)
(* processes change at any moment.                                         *)
(***************************************************************************)
EXTENDS Integers, Sequences, FiniteSets, TLC

(* ------------------------------ bounds -------------------------------- *)
\* largest cache_max_size the loader is constructed with
MaxCacheSize == 2
\* modification times are drawn from 1..MaxMTime
MaxMTime == 2

(* --------------------------- the directory tree ----------------------- *)
\* monitored candidate paths: commands/x.md, commands/y.md, skills/s/SKILL.md,
\* agents/g.md
Paths == {"x.md", "y.md", "s/SKILL.md", "g.md"}

\* order in which the three directories are walked: commands, skills, agents
PathSeq == <<"x.md", "y.md", "s/SKILL.md", "g.md">>

Cats == {"command", "skill", "agent"}

CatSeq == <<"command", "skill", "agent">>

\* category of a path, as decided by the directory it lies in
TypeOf(p) == CASE p = "s/SKILL.md" -> "skill" [] p = "g.md" -> "agent" [] OTHER -> "command"

\* Path.stem
Stem(p) == CASE p = "x.md" -> "x" [] p = "y.md" -> "y" [] p = "g.md" -> "g" [] OTHER -> "SKILL"

(* ------------------------- file contents ------------------------------ *)
\* header values that are not Python strings (an integer, null), written as tags
NonStrings == {"#123", "#null"}

IsStr(v) == v \notin NonStrings

\* the empty mapping {}
EmptyMeta == [k \in {} |-> "x"]

\* dict.get(key, default)
DictGet(m, k, d) == IF k \in DOMAIN m THEN m[k] ELSE d

\* truthiness of a header value: None and "" are falsy, 123 and "a" are truthy
Truthy(v) == v # "#null" /\ v # ""

\* header mappings that files of the model declare
Metas == { [id |-> "a", version |-> "1"],
           [id |-> "a", version |-> "2"],
           [id |-> "b", version |-> "1"],
           [id |-> "#123", version |-> "1"],
           [version |-> "1"] }

\* file texts: a well-formed header block with mapping meta, a text without a
\* parseable header block, bytes that are not UTF-8, and a file that may not be read
Contents == [kind : {"hdr"}, meta : Metas]
            \cup { [kind |-> "nohdr", meta |-> EmptyMeta],
                   [kind |-> "binary", meta |-> EmptyMeta],
                   [kind |-> "denied", meta |-> EmptyMeta] }

NoFile == [mtime |-> 0, content |-> [kind |-> "none", meta |-> EmptyMeta]]

Exists(f, p) == f[p].mtime # 0

\* what extract_frontmatter returns when it returns None
NotFound == [found |-> FALSE, raised |-> FALSE, meta |-> EmptyMeta]

\* extract_frontmatter, test by test: None for a text that does not start with
\* the delimiter ("nohdr"), for one that has no second delimiter ("noclose"),
\* for one with nothing ("empty") or only white space ("blank") between the
\* delimiters; then yaml.safe_load of the body: a mapping is returned ("hdr"),
\* a list or a scalar gives None ("list", "scalar"), a YAMLError such as an
\* unterminated bracket is caught and gives None ("badyaml"). On a body with a
\* scalar that the YAML constructor rejects with a ValueError, such as the date
\* 2024-13-45 ("badvalue"), the error is not a YAMLError and leaves the
\* function (raised).
extract_frontmatter(content) ==
    CASE content.kind = "nohdr" -> NotFound
      [] content.kind = "noclose" -> NotFound
      [] content.kind \in {"empty", "blank"} -> NotFound
      [] content.kind = "hdr" -> [found |-> TRUE, raised |-> FALSE, meta |-> content.meta]
      [] content.kind \in {"list", "scalar"} -> NotFound
      [] content.kind = "badyaml" -> NotFound
      [] content.kind = "badvalue" -> [found |-> FALSE, raised |-> TRUE, meta |-> EmptyMeta]
      [] OTHER -> NotFound

(* ------------------------- descriptors -------------------------------- *)
EMOJI_MAP(t) == CASE t = "command" -> "memo" [] t = "skill" -> "target" [] OTHER -> "robot"

color_map(t) == CASE t = "command" -> "#3498db" [] t = "skill" -> "#9b59b6" [] OTHER -> "#2ecc71"

\* a create_virtual_agent that lets the header override the presentation
\* attributes: emoji and color are taken from the header when it names them
create_virtual_agent_themed(t, id, name, description, p, metadata) ==
    LET mid == DictGet(metadata, "id", id)
        mname == DictGet(metadata, "name", name)
        mdesc == DictGet(metadata, "description", description)
    IN [ id |-> IF ~Truthy(mid) \/ ~IsStr(mid) THEN id ELSE mid,
         type |-> t,
         name |-> IF ~Truthy(mname) \/ ~IsStr(mname) THEN name ELSE mname,
         description |-> IF mdesc = "#null" \/ ~IsStr(mdesc) THEN "" ELSE mdesc,
         source_file |-> p,
         emoji |-> DictGet(metadata, "emoji", EMOJI_MAP(t)),
         color |-> DictGet(metadata, "color", color_map(t)),
         enabled |-> TRUE,
         metadata |-> metadata ]

\* create_virtual_agent, called as _load_agent_from_file calls it
create_virtual_agent(t, id, name, description, p, metadata) ==
    LET mid == DictGet(metadata, "id", id)
        mname == DictGet(metadata, "name", name)
        mdesc == DictGet(metadata, "description", description)
    IN [ id |-> IF ~Truthy(mid) \/ ~IsStr(mid) THEN id ELSE mid,
         type |-> t,
         name |-> IF ~Truthy(mname) \/ ~IsStr(mname) THEN name ELSE mname,
         description |-> IF mdesc = "#null" \/ ~IsStr(mdesc) THEN "" ELSE mdesc,
         source_file |-> p,
         emoji |-> EMOJI_MAP(t),
         color |-> color_map(t),
         enabled |-> TRUE,
         metadata |-> metadata ]

\* the descriptor _load_agent_from_file builds from a header mapping
AgentOf(p, t, metadata) ==
    create_virtual_agent(t, DictGet(metadata, "id", Stem(p)),
                         DictGet(metadata, "name", Stem(p)),
                         DictGet(metadata, "description", ""), p, metadata)

AgentChangeEvent(event_type, agent_id, agent_type, p) ==
    [event_type |-> event_type, agent_id |-> agent_id,
     agent_type |-> agent_type, source_file |-> p]

(* ------------------------------ state --------------------------------- *)
VARIABLES
    fs,              \* the directory tree: path -> [mtime, content], mtime 0 = no file
    dirs,            \* the three root directories, per category: "ok", "missing" (no
                     \* such directory) or "denied" (it exists and may not be listed);
                     \* reload_agent and the watcher are run over roots that are "ok"
    env_left,        \* file-system changes other processes may still make
    cache_max_size,  \* self._cache_max_size
    metadata_cache,  \* self._metadata_cache: OrderedDict, as the sequence of its items
    mtime_cache,     \* self._mtime_cache: dict path -> st_mtime
    cur,             \* the task the event loop is running, "-" when all are suspended
    load,            \* per task: the frame of its call of _load_agent_from_file / _emit_event
    watch,           \* the watch_changes task: its position, its locals, and as history
                     \* known0, env0 (known_files and env_left when the cycle began),
                     \* reported (per path the watcher has an event delivered about and
                     \* has not reported removed: the file's st_mtime when the load that
                     \* emitted the event returned), reported0 (reported when the
                     \* cycle began), ids (per such path: the identifier of the
                     \* latest descriptor the watcher built and reported for it)
                     \* how (the way the loop was left: "signal", "cancelled",
                     \* "error") and added (the paths the watcher has emitted an
                     \* added event about and no removed event since)
    stop_event,      \* stop_event.is_set()
    callbacks,       \* self._event_callbacks: the kinds of the registered subscribers
    scan,            \* per category: the scanner task of scan_all, and as history
                     \* listed (the candidates its walk yielded) and seen (per candidate
                     \* it loaded: how get_cached_metadata, the read and the load ended)
    scan_result,     \* what the calls of scan_all returned, oldest first
    scans_left,      \* calls of scan_all still to be made
    reload,          \* the reload_agent task: its position, its locals, and as history
                     \* cached0 (the cached paths when the call began) and stamp0
    reloads_left,    \* calls of reload_agent still to be made
    watch_log,       \* deliveries (subscriber, event) made by the watcher in its current cycle
    reload_log,      \* deliveries made by the current call of reload_agent
    ins_hist,        \* history: the cached paths in the order their keys entered the cache
    evict,           \* history: what the latest put evicted, and which entry was then oldest
    gone             \* history: per path, the id its cached header declared when it was deleted

vars == <<fs, dirs, env_left, cache_max_size, metadata_cache, mtime_cache, cur, load, watch,
          stop_event, callbacks, scan, scan_result, scans_left, reload, reloads_left,
          watch_log, reload_log, ins_hist, evict, gone>>

Tasks == Cats \cup {"reload", "watch"}

\* kinds of subscriber: a plain function, a plain function that raises after it
\* has taken the event, a coroutine function that suspends, and a callable
\* without a __name__ (a functools.partial, an object with __call__) that raises
CallbackKinds == {"sync", "raises", "async", "unnamed"}

(* ------------------------------ helpers ------------------------------- *)
RECURSIVE SeqFilterKeys(_, _)
\* the items of the item sequence s whose path is in K, order kept
SeqFilterKeys(s, K) ==
    IF s = <<>> THEN <<>>
    ELSE IF Head(s).path \in K THEN <<Head(s)>> \o SeqFilterKeys(Tail(s), K)
         ELSE SeqFilterKeys(Tail(s), K)

RECURSIVE PathsFilter(_, _)
\* the paths of the path sequence s that are in K, order kept
PathsFilter(s, K) ==
    IF s = <<>> THEN <<>>
    ELSE IF Head(s) \in K THEN <<Head(s)>> \o PathsFilter(Tail(s), K)
         ELSE PathsFilter(Tail(s), K)

\* the keys of the OrderedDict
Keys(mc) == {mc[i].path : i \in 1..Len(mc)}

\* the keys of the OrderedDict in its iteration order
KeyOrder(mc) == [i \in 1..Len(mc) |-> mc[i].path]

\* self._metadata_cache[p] for a key p
Lookup(mc, p) == (CHOOSE i \in 1..Len(mc) : mc[i].path = p)

\* del d[p] on a dict given as a function
DictDel(d, p) == [q \in DOMAIN d \ {p} |-> d[q]]

\* d[p] = v on a dict given as a function
DictSet(d, p, v) == [q \in DOMAIN d \cup {p} |-> IF q = p THEN v ELSE d[q]]

\* del self._metadata_cache[p]
CacheDel(mc, p) == SeqFilterKeys(mc, Keys(mc) \ {p})

\* self._metadata_cache[p] = metadata: a present key keeps its place, a new key goes last
CacheSet(mc, p, metadata) ==
    IF p \in Keys(mc)
    THEN [i \in 1..Len(mc) |-> IF mc[i].path = p THEN [path |-> p, meta |-> metadata] ELSE mc[i]]
    ELSE Append(mc, [path |-> p, meta |-> metadata])

(* --------------------------- the metadata cache ----------------------- *)
\* a get_cached_metadata that moves the entry it returns to the end of the
\* OrderedDict (move_to_end on a hit), as a least-recently-used cache does
get_cached_metadata_lru(mc, mt, f, p) ==
    IF p \in Keys(mc) /\ Exists(f, p) /\ f[p].mtime <= DictGet(mt, p, 0)
    THEN [res |-> "hit", meta |-> mc[Lookup(mc, p)].meta,
          mc |-> Append(CacheDel(mc, p), mc[Lookup(mc, p)]), mt |-> mt]
    ELSE IF p \notin Keys(mc)
    THEN [res |-> "miss", meta |-> EmptyMeta, mc |-> mc, mt |-> mt]
    ELSE [res |-> IF Exists(f, p) /\ p \notin DOMAIN mt THEN "raise" ELSE "miss",
          meta |-> EmptyMeta, mc |-> CacheDel(mc, p),
          mt |-> IF p \in DOMAIN mt THEN DictDel(mt, p) ELSE mt]

\* get_cached_metadata(file_path): res is "hit" (meta returned), "miss" (None
\* returned) or "raise" (KeyError at del self._mtime_cache[file_path])
get_cached_metadata(mc, mt, f, p) ==
    IF p \notin Keys(mc)
    THEN [res |-> "miss", meta |-> EmptyMeta, mc |-> mc, mt |-> mt]
    ELSE IF ~Exists(f, p)
    THEN [res |-> "miss", meta |-> EmptyMeta, mc |-> CacheDel(mc, p),
          mt |-> IF p \in DOMAIN mt THEN DictDel(mt, p) ELSE mt]
    ELSE IF f[p].mtime > DictGet(mt, p, 0)
    THEN IF p \in DOMAIN mt
         THEN [res |-> "miss", meta |-> EmptyMeta, mc |-> CacheDel(mc, p),
               mt |-> DictDel(mt, p)]
         ELSE [res |-> "raise", meta |-> EmptyMeta, mc |-> CacheDel(mc, p), mt |-> mt]
    ELSE [res |-> "hit", meta |-> mc[Lookup(mc, p)].meta, mc |-> mc, mt |-> mt]

\* a _cache_metadata without the eviction step
cache_metadata_unbounded(mc, mt, f, p, metadata, cap) ==
    [raised |-> FALSE, evicted |-> "-", mc |-> CacheSet(mc, p, metadata),
     mt |-> IF Exists(f, p) THEN DictSet(mt, p, f[p].mtime) ELSE mt]

\* _cache_metadata(file_path, metadata): raised is TRUE when popitem finds the
\* OrderedDict empty (KeyError); evicted is the key popitem removed, "-" if none
_cache_metadata(mc, mt, f, p, metadata, cap) ==
    IF Len(mc) >= cap /\ mc = <<>>
    THEN [raised |-> TRUE, evicted |-> "-", mc |-> mc, mt |-> mt]
    ELSE LET full == Len(mc) >= cap
             oldest == IF full THEN Head(mc).path ELSE "-"
             mc1 == IF full THEN Tail(mc) ELSE mc
             mt1 == IF full /\ oldest \in DOMAIN mt THEN DictDel(mt, oldest) ELSE mt
         IN [raised |-> FALSE, evicted |-> oldest,
             mc |-> CacheSet(mc1, p, metadata),
             mt |-> IF Exists(f, p) THEN DictSet(mt1, p, f[p].mtime) ELSE mt1]

\* an invalidation caught between its two del statements: the header entry is
\* deleted, the modification time is still indexed
InvalidateHeaderOnly(mc, mt, p) ==
    [mc |-> IF p \in Keys(mc) THEN CacheDel(mc, p) ELSE mc, mt |-> mt]

\* the two del statements that reload_agent and watch_changes use to invalidate
Invalidate(mc, mt, p) ==
    [mc |-> IF p \in Keys(mc) THEN CacheDel(mc, p) ELSE mc,
     mt |-> IF p \in DOMAIN mt THEN DictDel(mt, p) ELSE mt]

\* history of key insertions after a removal left the cache as mc1
HistKeep(h, mc1) == PathsFilter(h, Keys(mc1))

\* history of key insertions after a put of p that evicted the key evicted ("-": none)
HistPut(h, evicted, p) ==
    LET h1 == PathsFilter(h, Paths \ {evicted})
    IN IF \E i \in 1..Len(h1) : h1[i] = p THEN h1 ELSE Append(h1, p)

(* ------------------- _load_agent_from_file and _emit_event ------------- *)
NoDesc == [id |-> "-", type |-> "-", name |-> "-", description |-> "-", source_file |-> "-",
           emoji |-> "-", color |-> "-", enabled |-> FALSE, metadata |-> EmptyMeta]

NoEvent == AgentChangeEvent("-", "-", "-", "-")

\* history of a call of get_cached_metadata: what it found (entry: the header map
\* held the path, indexed: the index held a st_mtime for it, stored: that st_mtime,
\* 0 if none, current: the st_mtime of the file, 0 if there is no file), how it
\* ended, and whether the two maps held the path when it ended
NoGet == [called |-> FALSE, entry |-> FALSE, cached |-> EmptyMeta, indexed |-> FALSE,
          stored |-> 0, current |-> 0,
          res |-> "-", meta |-> EmptyMeta, in_mc |-> FALSE, in_mt |-> FALSE]

GetRecord(mc, mt, f, p, g) ==
    [called |-> TRUE, entry |-> p \in Keys(mc),
     cached |-> IF p \in Keys(mc) THEN mc[Lookup(mc, p)].meta ELSE EmptyMeta,
     indexed |-> p \in DOMAIN mt, stored |-> DictGet(mt, p, 0), current |-> f[p].mtime,
     res |-> g.res, meta |-> g.meta, in_mc |-> p \in Keys(g.mc), in_mt |-> p \in DOMAIN g.mt]

\* the frame of a task that is not inside _load_agent_from_file or _emit_event;
\* pc: "read" the file read runs in the thread pool, "resume" its outcome waits
\* for the event loop, "emit" inside the loop of _emit_event at callback cbidx,
\* "cb" awaiting an async callback, "ret" returned to the caller
\* (result: "agent", "none" for None, "raise" for an exception that propagates)
IdleFrame == [pc |-> "idle", path |-> "-", type |-> "-", emit |-> FALSE, was_cached |-> FALSE,
              got |-> NoGet, outcome |-> "-", content |-> NoFile.content,
              result |-> "-", agent |-> NoDesc, event |-> NoEvent, cbidx |-> 0]

\* the part of _load_agent_from_file after the header mapping is known:
\* build the descriptor and, if asked to, enter _emit_event
LoadBuild(fr, metadata) ==
    LET agent == AgentOf(fr.path, fr.type, metadata)
    IN IF fr.emit /\ Len(callbacks) > 0
       THEN [fr EXCEPT !.pc = "emit", !.result = "agent", !.agent = agent, !.cbidx = 1,
                       !.event = AgentChangeEvent(IF fr.was_cached THEN "modified" ELSE "added",
                                                  agent.id, fr.type, fr.path)]
       ELSE [fr EXCEPT !.pc = "ret", !.result = "agent", !.agent = agent]

\* a _load_agent_from_file that tests the cached mapping with "if not metadata":
\* an empty cached mapping counts as a miss and the file is read again
LoadBeginFalsy(p, t, emit, mc, mt, f) ==
    LET g == get_cached_metadata(mc, mt, f, p)
        fr == [IdleFrame EXCEPT !.path = p, !.type = t, !.emit = emit,
                                !.was_cached = (p \in Keys(mc)),
                                !.got = GetRecord(mc, mt, f, p, g)]
    IN [mc |-> g.mc, mt |-> g.mt,
        frame |-> CASE g.res = "raise" -> [fr EXCEPT !.pc = "ret", !.result = "raise"]
                    [] g.res = "hit" /\ g.meta # EmptyMeta -> LoadBuild(fr, g.meta)
                    [] OTHER -> [fr EXCEPT !.pc = "read"]]

\* _load_agent_from_file up to its first suspension: was_cached, then
\* get_cached_metadata; on a hit the descriptor is built without a file read
LoadBegin(p, t, emit, mc, mt, f) ==
    LET g == get_cached_metadata(mc, mt, f, p)
        fr == [IdleFrame EXCEPT !.path = p, !.type = t, !.emit = emit,
                                !.was_cached = (p \in Keys(mc)),
                                !.got = GetRecord(mc, mt, f, p, g)]
    IN [mc |-> g.mc, mt |-> g.mt,
        frame |-> CASE g.res = "raise" -> [fr EXCEPT !.pc = "ret", !.result = "raise"]
                    [] g.res = "hit" -> LoadBuild(fr, g.meta)
                    [] OTHER -> [fr EXCEPT !.pc = "read"]]

\* what aiofiles.open / f.read() end with for the file as it is when they run
ReadOutcome(f, p) ==
    CASE ~Exists(f, p) -> "enoent"
      [] f[p].content.kind = "binary" -> "decode"
      [] f[p].content.kind = "denied" -> "denied"
      [] OTHER -> "content"

\* the deliveries of the task's current operation go to the log of that task
LogDeliver(t, i, ev) ==
    /\ watch_log' = IF t = "watch" THEN Append(watch_log, [sub |-> i, ev |-> ev]) ELSE watch_log
    /\ reload_log' = IF t = "reload" THEN Append(reload_log, [sub |-> i, ev |-> ev]) ELSE reload_log

\* the running task's next step looks at the file system (a change made before
\* any other step of a running task has the same effect when it is made after it)
ReadsFs ==
    \/ cur = "-"
    \/ cur = "watch" /\ load["watch"].pc = "idle" /\ watch.pc \in {"top", "new", "mod"}
    \/ cur \in Cats /\ load[cur].pc = "idle" /\ scan[cur].pc = "iter"
    \/ cur = "reload" /\ load["reload"].pc = "idle" /\ reload.pc \in {"dir", "iter"}

\* the file read of a pending load, done by a worker thread
LoadRead(t) ==
    /\ load[t].pc = "read"
    /\ ReadsFs
    /\ load' = [load EXCEPT ![t].pc = "resume",
                            ![t].outcome = ReadOutcome(fs, load[t].path),
                            ![t].content = fs[load[t].path].content]
    /\ UNCHANGED <<fs, dirs, env_left, cache_max_size, metadata_cache, mtime_cache, cur,
                   watch, stop_event, callbacks, scan, scan_result, scans_left, reload,
                   reloads_left, watch_log, reload_log, ins_hist, evict, gone>>

\* the load is resumed with the outcome of the read: FileNotFoundError and
\* UnicodeDecodeError return None, any other error propagates; a text is parsed
\* (an error of the parser propagates), cached by _cache_metadata and turned
\* into a descriptor
LoadResume(t) ==
    /\ load[t].pc = "resume"
    /\ cur = "-"
    /\ cur' = t
    /\ LET fr == load[t]
           ex == extract_frontmatter(fr.content)
           metadata == IF ex.found THEN ex.meta ELSE EmptyMeta
           c == _cache_metadata(metadata_cache, mtime_cache, fs, fr.path, metadata,
                                cache_max_size)
       IN IF fr.outcome # "content"
          THEN /\ load' = [load EXCEPT ![t].pc = "ret",
                              ![t].result = IF fr.outcome = "denied" THEN "raise" ELSE "none"]
               /\ UNCHANGED <<metadata_cache, mtime_cache, ins_hist, evict>>
          ELSE IF ex.raised \/ c.raised
          THEN /\ load' = [load EXCEPT ![t].pc = "ret", ![t].result = "raise"]
               /\ UNCHANGED <<metadata_cache, mtime_cache, ins_hist, evict>>
          ELSE /\ metadata_cache' = c.mc
               /\ mtime_cache' = c.mt
               /\ ins_hist' = HistPut(ins_hist, c.evicted, fr.path)
               /\ evict' = [path |-> c.evicted,
                            oldest |-> IF c.evicted = "-" THEN "-" ELSE Head(ins_hist)]
               /\ load' = [load EXCEPT ![t] = LoadBuild(fr, metadata)]
    /\ UNCHANGED <<fs, dirs, env_left, cache_max_size, watch, stop_event, callbacks, scan,
                   scan_result, scans_left, reload, reloads_left, watch_log, reload_log,
                   gone>>

\* an _emit_event without the try block: the exception of a callback ends the
\* loop and leaves _emit_event
LoadEmitUncaught(t) ==
    /\ load[t].pc = "emit"
    /\ cur = t
    /\ LET i == load[t].cbidx
       IN /\ LogDeliver(t, i, load[t].event)
          /\ CASE callbacks[i] = "async" ->
                    /\ load' = [load EXCEPT ![t].pc = "cb"]
                    /\ cur' = "-"
               [] callbacks[i] \in {"raises", "unnamed"} ->
                    /\ load' = [load EXCEPT ![t].pc = "ret", ![t].result = "raise"]
                    /\ cur' = cur
               [] OTHER ->
                    /\ load' = [load EXCEPT ![t].pc = IF i < Len(callbacks) THEN "emit" ELSE "ret",
                                            ![t].cbidx = i + 1]
                    /\ cur' = cur
    /\ UNCHANGED <<fs, dirs, env_left, cache_max_size, metadata_cache, mtime_cache, watch,
                   stop_event, callbacks, scan, scan_result, scans_left, reload,
                   reloads_left, ins_hist, evict, gone>>

\* one turn of the loop of _emit_event: the callback is called with the event;
\* a coroutine is awaited and the task suspends; an exception of the callback is
\* caught and logged with callback.__name__, and when the callback has no
\* __name__ the AttributeError of the handler leaves _emit_event
LoadEmit(t) ==
    /\ load[t].pc = "emit"
    /\ cur = t
    /\ LET i == load[t].cbidx
       IN /\ LogDeliver(t, i, load[t].event)
          /\ CASE callbacks[i] = "async" ->
                    /\ load' = [load EXCEPT ![t].pc = "cb"]
                    /\ cur' = "-"
               [] callbacks[i] = "unnamed" ->
                    /\ load' = [load EXCEPT ![t].pc = "ret", ![t].result = "raise"]
                    /\ cur' = cur
               [] OTHER ->
                    /\ load' = [load EXCEPT ![t].pc = IF i < Len(callbacks) THEN "emit" ELSE "ret",
                                            ![t].cbidx = i + 1]
                    /\ cur' = cur
    /\ UNCHANGED <<fs, dirs, env_left, cache_max_size, metadata_cache, mtime_cache, watch,
                   stop_event, callbacks, scan, scan_result, scans_left, reload,
                   reloads_left, ins_hist, evict, gone>>

\* the awaited callback has returned and the loop of _emit_event goes on
LoadCbDone(t) ==
    /\ load[t].pc = "cb"
    /\ cur = "-"
    /\ cur' = t
    /\ load' = [load EXCEPT ![t].pc = IF load[t].cbidx < Len(callbacks) THEN "emit" ELSE "ret",
                            ![t].cbidx = load[t].cbidx + 1]
    /\ UNCHANGED <<fs, dirs, env_left, cache_max_size, metadata_cache, mtime_cache, watch,
                   stop_event, callbacks, scan, scan_result, scans_left, reload,
                   reloads_left, watch_log, reload_log, ins_hist, evict, gone>>

(* ----------------------------- watch_changes -------------------------- *)
\* the monitored paths that exist, with their st_mtime (one walk of the three
\* directories by the flat rule and the nested rule)
Snapshot(f) == [p \in {q \in Paths : Exists(f, q)} |-> f[p].mtime]

\* a cache change that is not a put
SetCache(mc1, mt1) ==
    /\ metadata_cache' = mc1
    /\ mtime_cache' = mt1
    /\ ins_hist' = HistKeep(ins_hist, mc1)
    /\ UNCHANGED evict

\* the positions j >= i of PathSeq that the loop "Detect new files" acts on
NewAt(w, i) == {j \in i..Len(PathSeq) :
                   PathSeq[j] \in DOMAIN w.current_files /\ PathSeq[j] \notin DOMAIN w.known_files}

\* the positions j >= i of PathSeq that the loop "Detect modified files" acts on
ModAt(w, i) == {j \in i..Len(PathSeq) :
                   /\ PathSeq[j] \in DOMAIN w.current_files
                   /\ PathSeq[j] \in DOMAIN w.known_files
                   /\ w.current_files[PathSeq[j]] > w.known_files[PathSeq[j]]}

Min(S) == CHOOSE x \in S : \A y \in S : x <= y

\* the task starts: the initial file list is built before the loop
WatchStart ==
    /\ watch.pc = "idle"
    /\ cur = "-"
    /\ cur' = "watch"
    /\ watch' = [watch EXCEPT !.pc = "top", !.known_files = Snapshot(fs)]
    /\ UNCHANGED <<fs, dirs, env_left, cache_max_size, metadata_cache, mtime_cache, load,
                   stop_event, callbacks, scan, scan_result, scans_left, reload,
                   reloads_left, watch_log, reload_log, ins_hist, evict, gone>>

\* a loop that does not test the stop signal ("while True")
WatchTopDeaf ==
    /\ watch.pc = "top"
    /\ cur = "watch"
    /\ watch.cycles > 0
    /\ watch' = [watch EXCEPT !.pc = "new", !.current_files = Snapshot(fs), !.i = 1,
                               !.cycles = watch.cycles - 1,
                               !.known0 = watch.known_files,
                               !.env0 = env_left,
                               !.reported0 = watch.reported]
    /\ watch_log' = <<>>
    /\ UNCHANGED <<fs, dirs, env_left, cache_max_size, metadata_cache, mtime_cache, cur,
                   load, stop_event, callbacks, scan, scan_result, scans_left, reload,
                   reloads_left, reload_log, ins_hist, evict, gone>>

\* top of the while loop: the stop signal is tested, then current_files is built
WatchTop ==
    /\ watch.pc = "top"
    /\ cur = "watch"
    /\ IF stop_event
       THEN /\ watch' = [watch EXCEPT !.pc = "stopped", !.how = "signal"]
            /\ cur' = "-"
            /\ UNCHANGED watch_log
       ELSE /\ watch' = [watch EXCEPT !.pc = "new", !.current_files = Snapshot(fs), !.i = 1,
                                      !.cycles = watch.cycles - 1,
                                      !.known0 = watch.known_files,
                                      !.env0 = env_left,
                                      !.reported0 = watch.reported]
            /\ cur' = cur
            /\ watch_log' = <<>>
    /\ UNCHANGED <<fs, dirs, env_left, cache_max_size, metadata_cache, mtime_cache, load,
                   stop_event, callbacks, scan, scan_result, scans_left, reload,
                   reloads_left, reload_log, ins_hist, evict, gone>>

\* loop "Detect new files": the next new path is loaded with emit_event=True
WatchNew ==
    /\ watch.pc = "new"
    /\ cur = "watch"
    /\ IF NewAt(watch, watch.i) = {}
       THEN /\ watch' = [watch EXCEPT !.pc = "mod", !.i = 1]
            /\ UNCHANGED <<cur, load, metadata_cache, mtime_cache, ins_hist, evict>>
       ELSE LET j == Min(NewAt(watch, watch.i))
                b == LoadBegin(PathSeq[j], TypeOf(PathSeq[j]), TRUE,
                               metadata_cache, mtime_cache, fs)
            IN /\ watch' = [watch EXCEPT !.pc = "new_ret", !.i = j]
               /\ load' = [load EXCEPT !["watch"] = b.frame]
               /\ cur' = IF b.frame.pc = "read" THEN "-" ELSE cur
               /\ SetCache(b.mc, b.mt)
    /\ UNCHANGED <<fs, dirs, env_left, cache_max_size, stop_event, callbacks, scan,
                   scan_result, scans_left, reload, reloads_left, watch_log, reload_log,
                   gone>>

\* a loop that records the loaded path without its modification time
\* (known_files[file_path] = 0)
WatchLoadRetNoTime ==
    /\ watch.pc \in {"new_ret", "mod_ret"}
    /\ load["watch"].pc = "ret"
    /\ cur = "watch"
    /\ load' = [load EXCEPT !["watch"] = IdleFrame]
    /\ IF load["watch"].result = "raise"
       THEN /\ watch' = [watch EXCEPT !.pc = "stopped", !.how = "error"]
            /\ cur' = "-"
       ELSE /\ watch' = [watch EXCEPT
                           !.pc = IF watch.pc = "new_ret" THEN "new" ELSE "mod",
                           !.known_files = DictSet(watch.known_files, PathSeq[watch.i], 0),
                           !.reported = IF load["watch"].result = "agent" /\ Len(callbacks) > 0
                                        THEN DictSet(watch.reported, PathSeq[watch.i],
                                                     fs[PathSeq[watch.i]].mtime)
                                        ELSE watch.reported,
                           !.ids = IF load["watch"].result = "agent" /\ Len(callbacks) > 0
                                   THEN DictSet(watch.ids, PathSeq[watch.i], load["watch"].agent.id)
                                   ELSE watch.ids,
                           !.added = IF /\ load["watch"].result = "agent"
                                        /\ Len(callbacks) > 0
                                        /\ load["watch"].event.event_type = "added"
                                     THEN watch.added \cup {PathSeq[watch.i]}
                                     ELSE watch.added,
                           !.i = watch.i + 1]
            /\ cur' = cur
    /\ UNCHANGED <<fs, dirs, env_left, cache_max_size, metadata_cache, mtime_cache,
                   stop_event, callbacks, scan, scan_result, scans_left, reload,
                   reloads_left, watch_log, reload_log, ins_hist, evict, gone>>

\* the load of a new or modified path has returned: known_files[file_path] = mtime;
\* an exception out of the load ends the loop in "except Exception"
WatchLoadRet ==
    /\ watch.pc \in {"new_ret", "mod_ret"}
    /\ load["watch"].pc = "ret"
    /\ cur = "watch"
    /\ load' = [load EXCEPT !["watch"] = IdleFrame]
    /\ IF load["watch"].result = "raise"
       THEN /\ watch' = [watch EXCEPT !.pc = "stopped", !.how = "error"]
            /\ cur' = "-"
       ELSE /\ watch' = [watch EXCEPT
                           !.pc = IF watch.pc = "new_ret" THEN "new" ELSE "mod",
                           !.known_files = DictSet(watch.known_files, PathSeq[watch.i],
                                                   watch.current_files[PathSeq[watch.i]]),
                           !.reported = IF load["watch"].result = "agent" /\ Len(callbacks) > 0
                                        THEN DictSet(watch.reported, PathSeq[watch.i],
                                                     fs[PathSeq[watch.i]].mtime)
                                        ELSE watch.reported,
                           !.ids = IF load["watch"].result = "agent" /\ Len(callbacks) > 0
                                   THEN DictSet(watch.ids, PathSeq[watch.i], load["watch"].agent.id)
                                   ELSE watch.ids,
                           !.added = IF /\ load["watch"].result = "agent"
                                        /\ Len(callbacks) > 0
                                        /\ load["watch"].event.event_type = "added"
                                     THEN watch.added \cup {PathSeq[watch.i]}
                                     ELSE watch.added,
                           !.i = watch.i + 1]
            /\ cur' = cur
    /\ UNCHANGED <<fs, dirs, env_left, cache_max_size, metadata_cache, mtime_cache,
                   stop_event, callbacks, scan, scan_result, scans_left, reload,
                   reloads_left, watch_log, reload_log, ins_hist, evict, gone>>

\* loop "Detect modified files": the cache entry of the next modified path is
\* deleted and the path is loaded with emit_event=True; after the loop,
\* removed_files is computed
WatchMod ==
    /\ watch.pc = "mod"
    /\ cur = "watch"
    /\ IF ModAt(watch, watch.i) = {}
       THEN /\ watch' = [watch EXCEPT !.pc = "rem",
                           !.removed = DOMAIN watch.known_files \ DOMAIN watch.current_files]
            /\ UNCHANGED <<cur, load, metadata_cache, mtime_cache, ins_hist, evict>>
       ELSE LET j == Min(ModAt(watch, watch.i))
                inv == Invalidate(metadata_cache, mtime_cache, PathSeq[j])
                b == LoadBegin(PathSeq[j], TypeOf(PathSeq[j]), TRUE, inv.mc, inv.mt, fs)
            IN /\ watch' = [watch EXCEPT !.pc = "mod_ret", !.i = j]
               /\ load' = [load EXCEPT !["watch"] = b.frame]
               /\ cur' = IF b.frame.pc = "read" THEN "-" ELSE cur
               /\ SetCache(b.mc, b.mt)
    /\ UNCHANGED <<fs, dirs, env_left, cache_max_size, stop_event, callbacks, scan,
                   scan_result, scans_left, reload, reloads_left, watch_log, reload_log,
                   gone>>

\* the identifier the loop "Detect removed files" puts into the removed event
RemovedId(mc, p) ==
    LET metadata == IF p \in Keys(mc) THEN mc[Lookup(mc, p)].meta ELSE EmptyMeta
    IN IF metadata # EmptyMeta THEN DictGet(metadata, "id", Stem(p)) ELSE Stem(p)

\* loop "Detect removed files": the removed event of the next removed path is
\* emitted; after the loop the task sleeps
WatchRem ==
    /\ watch.pc = "rem"
    /\ cur = "watch"
    /\ IF watch.removed = {}
       THEN /\ watch' = [watch EXCEPT !.pc = "sleep"]
            /\ cur' = "-"
            /\ UNCHANGED load
       ELSE \E p \in watch.removed :
               /\ watch' = [watch EXCEPT !.pc = "rem_ret"]
               /\ cur' = cur
               /\ load' = [load EXCEPT !["watch"] =
                            [IdleFrame EXCEPT !.pc = IF Len(callbacks) > 0 THEN "emit" ELSE "ret",
                                              !.path = p, !.type = TypeOf(p), !.cbidx = 1,
                                              !.event = AgentChangeEvent("removed",
                                                          RemovedId(metadata_cache, p),
                                                          TypeOf(p), p)]]
    /\ UNCHANGED <<fs, dirs, env_left, cache_max_size, metadata_cache, mtime_cache,
                   stop_event, callbacks, scan, scan_result, scans_left, reload,
                   reloads_left, watch_log, reload_log, ins_hist, evict, gone>>

\* the removed event has been emitted: the path leaves known_files and both
\* caches; an exception out of _emit_event ends the loop in "except Exception"
WatchRemRet ==
    /\ watch.pc = "rem_ret"
    /\ load["watch"].pc = "ret"
    /\ cur = "watch"
    /\ LET p == load["watch"].path
           inv == Invalidate(metadata_cache, mtime_cache, p)
       IN IF load["watch"].result = "raise"
          THEN /\ watch' = [watch EXCEPT !.pc = "stopped", !.how = "error"]
               /\ cur' = "-"
               /\ UNCHANGED <<metadata_cache, mtime_cache, ins_hist, evict>>
          ELSE /\ watch' = [watch EXCEPT !.pc = "rem", !.removed = watch.removed \ {p},
                                         !.known_files = DictDel(watch.known_files, p),
                                         !.reported = DictDel(watch.reported, p),
                                         !.ids = DictDel(watch.ids, p),
                                         !.added = watch.added \ {p}]
               /\ cur' = cur
               /\ SetCache(inv.mc, inv.mt)
    /\ load' = [load EXCEPT !["watch"] = IdleFrame]
    /\ UNCHANGED <<fs, dirs, env_left, cache_max_size, stop_event, callbacks, scan,
                   scan_result, scans_left, reload, reloads_left, watch_log, reload_log,
                   gone>>

\* asyncio.sleep(poll_interval) is over (the poll cycles are counted; a wake-up
\* that finds the stop signal set begins no cycle)
WatchWake ==
    /\ watch.pc = "sleep"
    /\ cur = "-"
    /\ watch.cycles > 0 \/ stop_event
    /\ cur' = "watch"
    /\ watch' = [watch EXCEPT !.pc = "top"]
    /\ UNCHANGED <<fs, dirs, env_left, cache_max_size, metadata_cache, mtime_cache, load,
                   stop_event, callbacks, scan, scan_result, scans_left, reload,
                   reloads_left, watch_log, reload_log, ins_hist, evict, gone>>

\* stop_event.set()
SetStop ==
    /\ ~stop_event
    /\ watch.pc # "stopped"
    /\ stop_event' = TRUE
    /\ UNCHANGED <<fs, dirs, env_left, cache_max_size, metadata_cache, mtime_cache, cur,
                   load, watch, callbacks, scan, scan_result, scans_left, reload,
                   reloads_left, watch_log, reload_log, ins_hist, evict, gone>>

\* task.cancel(): CancelledError is raised at the await the task is suspended in
WatchCancel ==
    /\ watch.pc \notin {"idle", "stopped"}
    /\ cur # "watch"
    /\ watch' = [watch EXCEPT !.pc = "stopped", !.how = "cancelled"]
    /\ load' = [load EXCEPT !["watch"] = IdleFrame]
    /\ UNCHANGED <<fs, dirs, env_left, cache_max_size, metadata_cache, mtime_cache, cur,
                   stop_event, callbacks, scan, scan_result, scans_left, reload,
                   reloads_left, watch_log, reload_log, ins_hist, evict, gone>>

\* a file vanishes after the walk at the top of the loop has listed it and
\* before its stat(): FileNotFoundError ends the loop in "except Exception"
WatchStatFault(P) ==
    /\ watch.pc = "top"
    /\ cur = "watch"
    /\ ~stop_event
    /\ env_left > 0
    /\ \E p \in P :
          /\ Exists(fs, p)
          /\ fs' = [fs EXCEPT ![p] = NoFile]
          /\ gone' = [gone EXCEPT ![p] = IF p \in DOMAIN watch.known_files
                                          THEN IF p \in Keys(metadata_cache)
                                               THEN DictGet(metadata_cache[Lookup(metadata_cache, p)].meta, "id", "-")
                                               ELSE "-"
                                          ELSE "-"]
    /\ env_left' = env_left - 1
    /\ watch' = [watch EXCEPT !.pc = "stopped", !.how = "error"]
    /\ cur' = "-"
    /\ UNCHANGED <<dirs, cache_max_size, metadata_cache, mtime_cache, load, stop_event,
                   callbacks, scan, scan_result, scans_left, reload, reloads_left,
                   watch_log, reload_log, ins_hist, evict>>

(* --------------------- scan_all and the three scanners ---------------- *)
\* the candidates a walk of the directory of category c yields, in walk order:
\* glob("*.md") lists the files that exist when the loop starts; iterdir() lists
\* the skill directories, whose SKILL.md is tested when its turn comes
Enumerate(c, f) ==
    PathsFilter(PathSeq, {p \in Paths : TypeOf(p) = c /\ (c = "skill" \/ Exists(f, p))})

\* position of a category in the argument list of asyncio.gather
CatIdx(c) == CHOOSE i \in 1..Len(CatSeq) : CatSeq[i] = c

\* what tells whether the tree was changed or another operation ran meanwhile
Stamp == [env |-> env_left, reloads |-> reloads_left, watch |-> watch.pc, reload |-> reload.pc]

\* scan_all is called: gather makes one task per scanner
ScanAllStart ==
    /\ scans_left > 0
    /\ cur = "-"
    /\ \A c \in Cats : scan[c].pc = "idle"
    /\ scans_left' = scans_left - 1
    /\ scan' = [c \in Cats |-> [scan[c] EXCEPT !.pc = "start", !.agents = <<>>,
                                               !.raised = FALSE, !.listed = <<>>,
                                               !.seen = <<>>, !.stamp = Stamp]]
    /\ UNCHANGED <<fs, dirs, env_left, cache_max_size, metadata_cache, mtime_cache, cur,
                   load, watch, stop_event, callbacks, scan_result, reload, reloads_left,
                   watch_log, reload_log, ins_hist, evict, gone>>

\* a scanner task runs for the first time: without its directory it returns [];
\* else the directory is enumerated. Of a directory that may not be listed
\* glob("*.md") yields nothing, and iterdir() raises PermissionError, which
\* leaves scan_skills
ScanBegin(c) ==
    /\ scan[c].pc = "start"
    /\ cur = "-"
    /\ \A d \in Cats : CatIdx(d) < CatIdx(c) => scan[d].pc # "start"
    /\ CASE dirs[c] = "missing" ->
              /\ scan' = [scan EXCEPT ![c].pc = "done"]
              /\ cur' = cur
         [] dirs[c] = "denied" /\ c = "skill" ->
              /\ scan' = [scan EXCEPT ![c].pc = "done", ![c].raised = TRUE]
              /\ cur' = cur
         [] dirs[c] = "denied" /\ c # "skill" ->
              /\ scan' = [scan EXCEPT ![c].pc = "iter", ![c].files = <<>>]
              /\ cur' = c
         [] OTHER ->
              /\ scan' = [scan EXCEPT ![c].pc = "iter", ![c].files = Enumerate(c, fs),
                                      ![c].listed = Enumerate(c, fs)]
              /\ cur' = c
    /\ UNCHANGED <<fs, dirs, env_left, cache_max_size, metadata_cache, mtime_cache, load,
                   watch, stop_event, callbacks, scan_result, scans_left, reload,
                   reloads_left, watch_log, reload_log, ins_hist, evict, gone>>

\* one turn of the scanner's loop: the next candidate is loaded; after the last
\* one the scanner returns its list
ScanIter(c) ==
    /\ scan[c].pc = "iter"
    /\ cur = c
    /\ IF scan[c].files = <<>>
       THEN /\ scan' = [scan EXCEPT ![c].pc = "done"]
            /\ cur' = "-"
            /\ UNCHANGED <<load, metadata_cache, mtime_cache, ins_hist, evict>>
       ELSE LET p == Head(scan[c].files)
                b == LoadBegin(p, c, FALSE, metadata_cache, mtime_cache, fs)
            IN IF c = "skill" /\ ~Exists(fs, p)
               THEN /\ scan' = [scan EXCEPT ![c].files = Tail(scan[c].files)]
                    /\ UNCHANGED <<cur, load, metadata_cache, mtime_cache, ins_hist, evict>>
               ELSE /\ scan' = [scan EXCEPT ![c].pc = "ret"]
                    /\ load' = [load EXCEPT ![c] = b.frame]
                    /\ cur' = IF b.frame.pc = "read" THEN "-" ELSE cur
                    /\ SetCache(b.mc, b.mt)
    /\ UNCHANGED <<fs, dirs, env_left, cache_max_size, watch, stop_event, callbacks,
                   scan_result, scans_left, reload, reloads_left, watch_log, reload_log,
                   gone>>

\* a scanner without the try block around the load: an exception of the load
\* leaves the scanner
ScanRetUncaught(c) ==
    /\ scan[c].pc = "ret"
    /\ load[c].pc = "ret"
    /\ cur = c
    /\ scan' = [scan EXCEPT ![c].pc = IF load[c].result = "raise" THEN "done" ELSE "iter",
                            ![c].raised = (load[c].result = "raise"),
                            ![c].files = Tail(scan[c].files),
                            ![c].agents = IF load[c].result = "agent"
                                          THEN Append(scan[c].agents, load[c].agent)
                                          ELSE scan[c].agents,
                            ![c].seen = Append(scan[c].seen,
                                               [path |-> load[c].path, got |-> load[c].got.res,
                                                outcome |-> load[c].outcome,
                                                kind |-> load[c].content.kind,
                                                result |-> load[c].result])]
    /\ load' = [load EXCEPT ![c] = IdleFrame]
    /\ cur' = IF load[c].result = "raise" THEN "-" ELSE cur
    /\ UNCHANGED <<fs, dirs, env_left, cache_max_size, metadata_cache, mtime_cache, watch,
                   stop_event, callbacks, scan_result, scans_left, reload, reloads_left,
                   watch_log, reload_log, ins_hist, evict, gone>>

\* the load has returned to the scanner: a descriptor is appended, None is
\* skipped, an exception is logged by "except Exception" and the loop goes on
ScanRet(c) ==
    /\ scan[c].pc = "ret"
    /\ load[c].pc = "ret"
    /\ cur = c
    /\ scan' = [scan EXCEPT ![c].pc = "iter", ![c].files = Tail(scan[c].files),
                            ![c].agents = IF load[c].result = "agent"
                                          THEN Append(scan[c].agents, load[c].agent)
                                          ELSE scan[c].agents,
                            ![c].seen = Append(scan[c].seen,
                                               [path |-> load[c].path, got |-> load[c].got.res,
                                                outcome |-> load[c].outcome,
                                                kind |-> load[c].content.kind,
                                                result |-> load[c].result])]
    /\ load' = [load EXCEPT ![c] = IdleFrame]
    /\ UNCHANGED <<fs, dirs, env_left, cache_max_size, metadata_cache, mtime_cache, cur,
                   watch, stop_event, callbacks, scan_result, scans_left, reload,
                   reloads_left, watch_log, reload_log, ins_hist, evict, gone>>

\* what gather(..., return_exceptions=True) holds for a scanner: its list, or
\* the exception that left it, which scan_all logs and passes over
Gathered(sc) == IF sc.raised THEN <<>> ELSE sc.agents

\* a scan_all whose gather is called without return_exceptions: the exception
\* of a scanner leaves gather and scan_all
ScanAllJoinFailFast ==
    /\ \A c \in Cats : scan[c].pc = "done"
    /\ cur = "-"
    /\ scan_result' = Append(scan_result,
                             [agents |-> IF \E c \in Cats : scan[c].raised THEN <<>>
                                         ELSE scan["command"].agents \o scan["skill"].agents
                                              \o scan["agent"].agents,
                              size |-> Len(metadata_cache),
                              error |-> \E c \in Cats : scan[c].raised,
                              raised |-> {c \in Cats : scan[c].raised},
                              parts |-> [c \in Cats |-> scan[c].agents],
                              started |-> scan["command"].stamp,
                              ended |-> Stamp])
    /\ scan' = [c \in Cats |-> [scan[c] EXCEPT !.pc = "idle", !.files = <<>>, !.agents = <<>>,
                                               !.raised = FALSE, !.listed = <<>>,
                                               !.seen = <<>>]]
    /\ UNCHANGED <<fs, dirs, env_left, cache_max_size, metadata_cache, mtime_cache, cur,
                   load, watch, stop_event, callbacks, scans_left, reload, reloads_left,
                   watch_log, reload_log, ins_hist, evict, gone>>

\* gather has all three results: scan_all returns the concatenation of the
\* lists; as history, error (scan_all raised), raised (the scanners that an
\* exception left) and parts (the list each scanner had collected)
ScanAllJoin ==
    /\ \A c \in Cats : scan[c].pc = "done"
    /\ cur = "-"
    /\ scan_result' = Append(scan_result,
                             [agents |-> Gathered(scan["command"]) \o Gathered(scan["skill"])
                                         \o Gathered(scan["agent"]),
                              size |-> Len(metadata_cache),
                              error |-> FALSE,
                              raised |-> {c \in Cats : scan[c].raised},
                              parts |-> [c \in Cats |-> scan[c].agents],
                              started |-> scan["command"].stamp,
                              ended |-> Stamp])
    /\ scan' = [c \in Cats |-> [scan[c] EXCEPT !.pc = "idle", !.files = <<>>, !.agents = <<>>,
                                               !.raised = FALSE, !.listed = <<>>,
                                               !.seen = <<>>]]
    /\ UNCHANGED <<fs, dirs, env_left, cache_max_size, metadata_cache, mtime_cache, cur,
                   load, watch, stop_event, callbacks, scans_left, reload, reloads_left,
                   watch_log, reload_log, ins_hist, evict, gone>>

(* ------------------------------ reload_agent -------------------------- *)
\* identifiers reload_agent is called with
ReloadIds == {"a", "x"}

\* history: what tells whether the tree was changed or a scan ran during a call
ReloadStamp == [env |-> env_left, scans |-> scans_left,
                idle |-> \A c \in Cats : scan[c].pc = "idle"]

\* reload_agent(agent_id) is called
ReloadStart(id) ==
    /\ reloads_left > 0
    /\ reload.pc \in {"idle", "done"}
    /\ cur = "-"
    /\ cur' = "reload"
    /\ reloads_left' = reloads_left - 1
    /\ reload' = [pc |-> "dir", agent_id |-> id, d |-> 1, files |-> <<>>,
                  result |-> "-", agent |-> NoDesc, cached0 |-> Keys(metadata_cache),
                  stamp0 |-> ReloadStamp]
    /\ reload_log' = <<>>
    /\ UNCHANGED <<fs, dirs, env_left, cache_max_size, metadata_cache, mtime_cache, load,
                   watch, stop_event, callbacks, scan, scan_result, scans_left, watch_log,
                   ins_hist, evict, gone>>

\* the loop over all_dirs: the next directory is enumerated; after the last
\* one "Agent not found for reload" and None
ReloadDir ==
    /\ reload.pc = "dir"
    /\ cur = "reload"
    /\ IF reload.d > Len(CatSeq)
       THEN /\ reload' = [reload EXCEPT !.pc = "done", !.result = "none"]
            /\ cur' = "-"
       ELSE /\ reload' = [reload EXCEPT !.pc = "iter", !.files = Enumerate(CatSeq[reload.d], fs)]
            /\ cur' = cur
    /\ UNCHANGED <<fs, dirs, env_left, cache_max_size, metadata_cache, mtime_cache, load,
                   watch, stop_event, callbacks, scan, scan_result, scans_left,
                   reloads_left, watch_log, reload_log, ins_hist, evict, gone>>

\* one candidate of the directory: its cached header is looked up with
\* get_cached_metadata; if it is a non-empty mapping whose id is agent_id, its
\* cache entry is deleted and the file is loaded with emit_event=True
ReloadIter ==
    /\ reload.pc = "iter"
    /\ cur = "reload"
    /\ IF reload.files = <<>>
       THEN /\ reload' = [reload EXCEPT !.pc = "dir", !.d = reload.d + 1]
            /\ UNCHANGED <<cur, load, metadata_cache, mtime_cache, ins_hist, evict>>
       ELSE LET p == Head(reload.files)
                g == get_cached_metadata(metadata_cache, mtime_cache, fs, p)
                inv == Invalidate(g.mc, g.mt, p)
                b == LoadBegin(p, TypeOf(p), TRUE, inv.mc, inv.mt, fs)
            IN IF TypeOf(p) = "skill" /\ ~Exists(fs, p)
               THEN /\ reload' = [reload EXCEPT !.files = Tail(reload.files)]
                    /\ UNCHANGED <<cur, load, metadata_cache, mtime_cache, ins_hist, evict>>
               ELSE IF g.res = "raise"
               THEN /\ reload' = [reload EXCEPT !.pc = "done", !.result = "raise"]
                    /\ cur' = "-"
                    /\ SetCache(g.mc, g.mt)
                    /\ UNCHANGED load
               ELSE IF g.res = "hit" /\ g.meta # EmptyMeta
                       /\ DictGet(g.meta, "id", "#null") = reload.agent_id
               THEN /\ reload' = [reload EXCEPT !.pc = "ret"]
                    /\ load' = [load EXCEPT !["reload"] = b.frame]
                    /\ cur' = IF b.frame.pc = "read" THEN "-" ELSE cur
                    /\ SetCache(b.mc, b.mt)
               ELSE /\ reload' = [reload EXCEPT !.files = Tail(reload.files)]
                    /\ SetCache(g.mc, g.mt)
                    /\ UNCHANGED <<cur, load>>
    /\ UNCHANGED <<fs, dirs, env_left, cache_max_size, watch, stop_event, callbacks, scan,
                   scan_result, scans_left, reloads_left, watch_log, reload_log, gone>>

\* the load has returned to reload_agent: a descriptor is returned, after None
\* the search goes on, an exception propagates to the caller
ReloadRet ==
    /\ reload.pc = "ret"
    /\ load["reload"].pc = "ret"
    /\ cur = "reload"
    /\ load' = [load EXCEPT !["reload"] = IdleFrame]
    /\ IF load["reload"].result = "none"
       THEN /\ reload' = [reload EXCEPT !.pc = "iter", !.files = Tail(reload.files)]
            /\ cur' = cur
       ELSE /\ reload' = [reload EXCEPT !.pc = "done", !.result = load["reload"].result,
                                        !.agent = load["reload"].agent]
            /\ cur' = "-"
    /\ UNCHANGED <<fs, dirs, env_left, cache_max_size, metadata_cache, mtime_cache, watch,
                   stop_event, callbacks, scan, scan_result, scans_left, reloads_left,
                   watch_log, reload_log, ins_hist, evict, gone>>

(* ------------------------- the other processes ------------------------ *)
\* a file is created or rewritten with content c and modification time m
EnvWrite(p, c, m) ==
    /\ env_left > 0
    /\ fs[p] # [mtime |-> m, content |-> c]
    /\ env_left' = env_left - 1
    /\ fs' = [fs EXCEPT ![p] = [mtime |-> m, content |-> c]]
    /\ gone' = [gone EXCEPT ![p] = "-"]
    /\ UNCHANGED <<dirs, cache_max_size, metadata_cache, mtime_cache, cur, load, watch,
                   stop_event, callbacks, scan, scan_result, scans_left, reload,
                   reloads_left, watch_log, reload_log, ins_hist, evict>>

\* the watcher is running and tracks the path
Watched(p) == watch.pc \notin {"idle", "stopped"} /\ p \in DOMAIN watch.known_files

\* the id the cached header of the path declares, "-" if there is none
CachedId(mc, p) ==
    IF p \in Keys(mc) THEN DictGet(mc[Lookup(mc, p)].meta, "id", "-") ELSE "-"

\* a file is deleted
EnvDelete(p) ==
    /\ env_left > 0
    /\ Exists(fs, p)
    /\ env_left' = env_left - 1
    /\ fs' = [fs EXCEPT ![p] = NoFile]
    /\ gone' = [gone EXCEPT ![p] = IF Watched(p) THEN CachedId(metadata_cache, p) ELSE "-"]
    /\ UNCHANGED <<dirs, cache_max_size, metadata_cache, mtime_cache, cur, load, watch,
                   stop_event, callbacks, scan, scan_result, scans_left, reload,
                   reloads_left, watch_log, reload_log, ins_hist, evict>>

(* --------------------------- specifications --------------------------- *)
\* the loader after __init__, over files drawn from C at paths P
\* with ne changes by other processes, ns calls of scan_all, nr calls of
\* reload_agent and nc poll cycles still to come
InitLoader(P, C, caps, cbs, ne, ns, nr, nc) ==
    /\ fs \in [Paths -> {NoFile} \cup [mtime : {1}, content : C]]
    /\ \A p \in Paths \ P : fs[p] = NoFile
    /\ env_left = ne
    /\ cache_max_size \in caps
    /\ metadata_cache = <<>>
    /\ mtime_cache = [p \in {} |-> 0]
    /\ cur = "-"
    /\ load = [t \in Tasks |-> IdleFrame]
    /\ watch = [pc |-> "idle", known_files |-> [p \in {} |-> 0],
                current_files |-> [p \in {} |-> 0], known0 |-> [p \in {} |-> 0],
                i |-> 1, removed |-> {}, cycles |-> nc, env0 |-> ne,
                reported |-> [p \in {} |-> 0], reported0 |-> [p \in {} |-> 0],
                ids |-> [p \in {} |-> "-"], how |-> "-", added |-> {}]
    /\ stop_event = FALSE
    /\ callbacks = cbs
    /\ scan = [c \in Cats |-> [pc |-> "idle", files |-> <<>>, agents |-> <<>>,
                               raised |-> FALSE, listed |-> <<>>, seen |-> <<>>,
                               stamp |-> [env |-> 0, reloads |-> 0, watch |-> "-", reload |-> "-"]]]
    /\ scan_result = <<>>
    /\ scans_left = ns
    /\ reload = [pc |-> "idle", agent_id |-> "-", d |-> 1, files |-> <<>>,
                 result |-> "-", agent |-> NoDesc, cached0 |-> {},
                 stamp0 |-> [env |-> ne, scans |-> ns, idle |-> TRUE]]
    /\ reloads_left = nr
    /\ watch_log = <<>>
    /\ reload_log = <<>>
    /\ ins_hist = <<>>
    /\ evict = [path |-> "-", oldest |-> "-"]
    /\ gone = [p \in Paths |-> "-"]

\* the same, with the three root directories in place
InitWith(P, C, caps, cbs, ne, ns, nr, nc) ==
    /\ InitLoader(P, C, caps, cbs, ne, ns, nr, nc)
    /\ dirs = [c \in Cats |-> "ok"]

Reads == \E t \in Tasks : LoadRead(t) \/ LoadResume(t)

Emits == \E t \in Tasks : LoadEmit(t) \/ LoadCbDone(t)

Loads == Reads \/ Emits

Watcher == WatchStart \/ WatchTop \/ WatchNew \/ WatchLoadRet \/ WatchMod \/ WatchRem
           \/ WatchRemRet \/ WatchWake

Control == SetStop \/ WatchCancel

Scanners == ScanAllStart \/ ScanAllJoin
            \/ \E c \in Cats : ScanBegin(c) \/ ScanIter(c) \/ ScanRet(c)

Reloader == ReloadDir \/ ReloadIter \/ ReloadRet \/ \E id \in ReloadIds : ReloadStart(id)

Env(P, C) ==
    /\ ReadsFs
    /\ \E p \in P : EnvDelete(p) \/ \E c \in C, m \in 1..MaxMTime : EnvWrite(p, c, m)

\* one header text
OneVersion == { [kind |-> "hdr", meta |-> [id |-> "a", version |-> "1"]] }

\* two header texts that declare the same id and differ in another field
TwoVersions == { [kind |-> "hdr", meta |-> [id |-> "a", version |-> "1"]],
                 [kind |-> "hdr", meta |-> [id |-> "a", version |-> "2"]] }

\* header texts of two ids, one of them in two versions
TwoIds == TwoVersions \cup { [kind |-> "hdr", meta |-> [id |-> "b", version |-> "1"]] }

\* one flat-category file and one nested-category file
TwoPaths == {"x.md", "s/SKILL.md"}

\* a subscriber that raises and a coroutine subscriber, in registration order
Subscribers == <<"raises", "async">>

(* The whole loader: scan_all, reload_agent and the watcher run concurrently  *)
(* over a tree that holds both files and that other processes change.         *)
\* changes of the tree
SpecEnvSteps == 1
\* calls of scan_all
SpecScans == 1
\* calls of reload_agent
SpecReloads == 1
\* poll cycles
SpecCycles == 2

Init ==
    /\ InitWith(TwoPaths, OneVersion, 1..MaxCacheSize, Subscribers,
                SpecEnvSteps, SpecScans, SpecReloads, SpecCycles)
    /\ \A p \in TwoPaths : Exists(fs, p)

Next == Loads \/ Watcher \/ Scanners \/ Reloader \/ Env(TwoPaths, OneVersion)

Spec == Init /\ [][Next]_vars

(* Successive calls of scan_all over a tree that other processes change.      *)
ScanEnvSteps == 2
ScanScans == 3

InitScan == InitWith(TwoPaths, TwoVersions, 1..MaxCacheSize, <<>>, ScanEnvSteps, ScanScans, 0, 0)

NextScan == Reads \/ Scanners \/ Env(TwoPaths, TwoVersions)

SpecScan == InitScan /\ [][NextScan]_vars

(* The watcher alone over a tree that other processes change.                 *)
WatchEnvSteps == 3
WatchCycles == 2

InitWatch == InitWith(TwoPaths, TwoVersions, 1..MaxCacheSize, Subscribers,
                      WatchEnvSteps, 0, 0, WatchCycles)

NextWatch == Loads \/ Watcher \/ Env(TwoPaths, TwoVersions)

SpecWatch == InitWatch /\ [][NextWatch]_vars

(* The watcher and a call of scan_all.                                        *)
WatchScanEnvSteps == 1
WatchScanScans == 1
WatchScanCycles == 2

InitWatchScan == InitWith(TwoPaths, TwoVersions, 1..MaxCacheSize, Subscribers,
                          WatchScanEnvSteps, WatchScanScans, 0, WatchScanCycles)

NextWatchScan == Loads \/ Watcher \/ Scanners \/ Env(TwoPaths, TwoVersions)

SpecWatchScan == InitWatchScan /\ [][NextWatchScan]_vars

(* A call of scan_all and a call of reload_agent.                             *)
ReloadEnvSteps == 1
ReloadScans == 1
ReloadReloads == 1

InitReload == InitWith(TwoPaths, TwoIds, 1..MaxCacheSize, Subscribers,
                       ReloadEnvSteps, ReloadScans, ReloadReloads, 0)

NextReload == Loads \/ Scanners \/ Reloader \/ Env(TwoPaths, TwoIds)

SpecReload == InitReload /\ [][NextReload]_vars

(* Calls of scan_all over files of every kind: headers whose fields are       *)
(* strings, an integer, null or absent, texts without a parseable header,      *)
(* files that cannot be read.                                                  *)
\* header texts: the three fields as strings, as integers, as nulls, absent, and
\* a header that declares the stem of commands/x.md as its id
FieldHeaders == { [kind |-> "hdr", meta |-> [id |-> "a", name |-> "n", description |-> "d"]],
                  [kind |-> "hdr", meta |-> [id |-> "#123", name |-> "#123", description |-> "#123"]],
                  [kind |-> "hdr", meta |-> [id |-> "#null", name |-> "#null", description |-> "#null"]],
                  [kind |-> "hdr", meta |-> [version |-> "1"]],
                  [kind |-> "hdr", meta |-> [id |-> "x"]] }

\* texts from which extract_frontmatter gets no mapping
Headerless == { [kind |-> "nohdr", meta |-> EmptyMeta],
                [kind |-> "badyaml", meta |-> EmptyMeta],
                [kind |-> "badvalue", meta |-> EmptyMeta] }

\* files whose read fails: not UTF-8, no permission
Unreadable == { [kind |-> "binary", meta |-> EmptyMeta],
                [kind |-> "denied", meta |-> EmptyMeta] }

FileKinds == FieldHeaders \cup Headerless \cup Unreadable

\* two files of the flat category of the commands and one of the nested category
FlatAndNested == {"x.md", "y.md", "s/SKILL.md"}

FilesScans == 2

InitFiles == InitWith(FlatAndNested, FileKinds, 1..MaxCacheSize, <<>>, 0, FilesScans, 0, 0)

NextFiles == Reads \/ Scanners

SpecFiles == InitFiles /\ [][NextFiles]_vars

(* Calls of scan_all over trees in which root directories are missing or may  *)
(* not be listed.                                                              *)
DirsEnvSteps == 1
DirsScans == 2

InitDirs ==
    /\ InitLoader(TwoPaths, OneVersion, 1..MaxCacheSize, <<>>, DirsEnvSteps, DirsScans, 0, 0)
    /\ dirs \in [Cats -> {"ok", "missing", "denied"}]
    /\ \A p \in Paths : dirs[TypeOf(p)] = "missing" => ~Exists(fs, p)

\* other processes change the files of the directories that exist
NextDirs ==
    \/ Reads
    \/ Scanners
    \/ \E p \in TwoPaths : dirs[TypeOf(p)] # "missing" /\ Env({p}, OneVersion)

SpecDirs == InitDirs /\ [][NextDirs]_vars

(* Successive calls of scan_all over two files of one category, with and       *)
(* without a header, readable and not, that other processes rewrite or delete. *)
\* the two flat-category files
SameCategory == {"x.md", "y.md"}

\* the texts the files hold at first
RereadKinds == { [kind |-> "hdr", meta |-> [id |-> "a", version |-> "1"]],
                 [kind |-> "nohdr", meta |-> EmptyMeta],
                 [kind |-> "badyaml", meta |-> EmptyMeta],
                 [kind |-> "binary", meta |-> EmptyMeta],
                 [kind |-> "denied", meta |-> EmptyMeta] }

\* the texts another process writes
Rewrites == { [kind |-> "hdr", meta |-> [id |-> "a", version |-> "2"]],
              [kind |-> "binary", meta |-> EmptyMeta] }

RereadEnvSteps == 2
RereadScans == 2

InitReread == InitWith(SameCategory, RereadKinds, 1..MaxCacheSize, <<>>,
                       RereadEnvSteps, RereadScans, 0, 0)

NextReread == Reads \/ Scanners \/ Env(SameCategory, Rewrites)

SpecReread == InitReread /\ [][NextReread]_vars

(* The watcher and a call of reload_agent, with subscribers that raise.        *)
\* the subscribers in registration order: a function that raises and a
\* coroutine function; a callable without __name__ that raises and a function
Registrations == { <<"raises", "async">>, <<"unnamed", "sync">> }

BusEnvSteps == 1
BusReloads == 1
BusCycles == 2

InitBus ==
    \E cbs \in Registrations :
        InitWith(TwoPaths, OneVersion, 1..MaxCacheSize, cbs, BusEnvSteps, 0, BusReloads, BusCycles)

NextBus == Loads \/ Watcher \/ Reloader \/ Env(TwoPaths, OneVersion)

SpecBus == InitBus /\ [][NextBus]_vars

(* The watcher over files that cannot be read and files that vanish.          *)
\* a readable text, bytes that are not UTF-8, a file that may not be read
FaultKinds == { [kind |-> "hdr", meta |-> [id |-> "a", version |-> "1"]],
                [kind |-> "binary", meta |-> EmptyMeta],
                [kind |-> "denied", meta |-> EmptyMeta] }

FaultEnvSteps == 1
FaultCycles == 2

InitFault == InitWith(TwoPaths, FaultKinds, 1..MaxCacheSize, Subscribers,
                      FaultEnvSteps, 0, 0, FaultCycles)

NextFault == Loads \/ Watcher \/ WatchStatFault(TwoPaths) \/ Env(TwoPaths, FaultKinds)

SpecFault == InitFault /\ [][NextFault]_vars

(* A call of scan_all over one file of each category, with headers that name  *)
(* presentation attributes.                                                    *)
\* one file per category
OnePerCategory == {"x.md", "s/SKILL.md", "g.md"}

\* a header with the keys emoji, color and enabled, a header without them, and
\* a text without a header
ThemedHeaders == { [kind |-> "hdr", meta |-> [id |-> "a", emoji |-> "star", color |-> "#000000",
                                               enabled |-> "false"]],
                   [kind |-> "hdr", meta |-> [id |-> "a"]],
                   [kind |-> "nohdr", meta |-> EmptyMeta] }

KindsScans == 2

InitKinds == InitWith(OnePerCategory, ThemedHeaders, 1..MaxCacheSize, <<>>, 0, KindsScans, 0, 0)

NextKinds == Reads \/ Scanners

SpecKinds == InitKinds /\ [][NextKinds]_vars

(* Calls of scan_all over one file whose text is of every shape that           *)
(* extract_frontmatter tells apart.                                            *)
\* texts: a header block with a mapping; no leading delimiter; no closing
\* delimiter; nothing and white space between the delimiters; a body that is a
\* list, a scalar, not YAML, and YAML with a value the constructor rejects
ParseTexts == { [kind |-> "hdr", meta |-> [id |-> "a", version |-> "1"]] }
              \cup [kind : {"nohdr", "noclose", "empty", "blank", "list", "scalar",
                            "badyaml", "badvalue"},
                    meta : {EmptyMeta}]

ParseScans == 2

InitParse == InitWith(SameCategory, ParseTexts, 1..MaxCacheSize, <<>>, 0, ParseScans, 0, 0)

NextParse == Reads \/ Scanners

SpecParse == InitParse /\ [][NextParse]_vars

(* Calls of scan_all over files that other processes rewrite, each version    *)
(* of a file with a modification time of its own.                              *)
\* the version field of the text written at modification time 1, 2, 3
VersionNames == <<"1", "2", "3">>

\* the text of the version of a file that is written at modification time m
VersionText(m) == [kind |-> "hdr", meta |-> [id |-> "a", version |-> VersionNames[m]]]

\* a file is deleted, or written in the version of the time of the write
EnvVersioned(P) ==
    /\ ReadsFs
    /\ \E p \in P : EnvDelete(p) \/ \E m \in 1..MaxMTime : EnvWrite(p, VersionText(m), m)

VersionsEnvSteps == 2
VersionsScans == 2

InitVersions == InitWith(TwoPaths, {VersionText(1)}, 1..MaxCacheSize, <<>>,
                         VersionsEnvSteps, VersionsScans, 0, 0)

NextVersions == Reads \/ Scanners \/ EnvVersioned(TwoPaths)

SpecVersions == InitVersions /\ [][NextVersions]_vars

(* Calls of scan_all by loaders constructed with every cache_max_size from 0  *)
(* on, over a tree that does not change.                                       *)
CapsScans == 2

InitCaps == InitWith(OnePerCategory, TwoVersions, 0..MaxCacheSize, <<>>, 0, CapsScans, 0, 0)

NextCaps == Reads \/ Scanners

SpecCaps == InitCaps /\ [][NextCaps]_vars

(* The watcher, stopped by the stop signal or by cancelling its task.         *)
StopEnvSteps == 1
StopCycles == 2

InitStop == InitWith(TwoPaths, OneVersion, 1..MaxCacheSize, Subscribers,
                     StopEnvSteps, 0, 0, StopCycles)

NextStop == Loads \/ Watcher \/ Control \/ Env(TwoPaths, OneVersion)

SpecStop == InitStop /\ [][NextStop]_vars

\* the same, with an event loop that runs every task that can run: the reads
\* of the thread pool end, awaited subscribers return, the sleep ends
SpecStopFair == SpecStop /\ WF_vars(Loads \/ Watcher)

(* ------------------------------- claims ------------------------------- *)
\* the events of the log that were delivered to subscriber i about path p
Delivered(log, p, i) ==
    LET d == SelectSeq(log, LAMBDA e : e.sub = i /\ e.ev.source_file = p)
    IN [k \in 1..Len(d) |-> d[k].ev]

\* every subscriber was delivered the event ev about path p, and nothing else about p
ExactlyOne(log, p, ev) == \A i \in 1..Len(callbacks) : Delivered(log, p, i) = <<ev>>

\* no subscriber was delivered an event about path p
NoEventFor(log, p) == \A i \in 1..Len(callbacks) : Delivered(log, p, i) = <<>>

\* the header mapping a parse of the file at p gives
HeaderOf(f, p) == IF extract_frontmatter(f[p].content).found THEN f[p].content.meta ELSE EmptyMeta

\* the file at p exists, can be read, and its descriptor has identifier id
Resolves(f, p, id) ==
    /\ Exists(f, p)
    /\ f[p].content.kind \in {"hdr", "nohdr"}
    /\ AgentOf(p, TypeOf(p), HeaderOf(f, p)).id = id

\* the set of the elements of a sequence
Range(s) == {s[k] : k \in 1..Len(s)}

\* C1: Bounded cache. Whatever scan, reload and watcher tasks do to the cache, in
\* any interleaving, the number of entries of the metadata cache never exceeds
\* cache_max_size.
BoundedCache == Len(metadata_cache) <= cache_max_size

\* C1 witness: a put at capacity has evicted an entry and the cache is full
BoundedCacheWitness ==
    /\ evict.path # "-"
    /\ Len(metadata_cache) = cache_max_size

\* C2: FIFO eviction. The entry a put at capacity evicts is the one whose key
\* entered the cache earliest among those present, and the order in which
\* entries would be evicted is always the order of insertion: a cache hit does
\* not change it.
FifoEviction ==
    /\ evict.path = evict.oldest
    /\ KeyOrder(metadata_cache) = ins_hist

\* C2 witness: with room for two entries, a put found the cache full and evicted
\* one of the two
FifoEvictionWitness ==
    /\ cache_max_size = 2
    /\ evict.path # "-"
    /\ Len(metadata_cache) = 2

\* C3: get_cached_metadata returns the cached mapping if and only if the header
\* map holds an entry for the path and the modification time stored for it is
\* not older than the file's current one; in every other case it reports a miss
\* and leaves neither map holding the path.
GetContract ==
    \A t \in Tasks :
        LET g == load[t].got
        IN g.called =>
            /\ (g.res = "hit") <=> (g.entry /\ g.indexed /\ g.current # 0 /\ g.stored >= g.current)
            /\ g.res = "hit" => g.meta = g.cached
            /\ g.res # "hit" => g.res = "miss" /\ ~g.in_mc /\ ~g.in_mt

\* C4: Scenario addition. A flat-category file declaring id "a" that the running
\* watcher first observes in a poll cycle, and that does not change during the
\* cycle, gets exactly one event (added, "a", category, path) delivered to every
\* subscriber in that cycle, its header is cached when the event is emitted, and
\* a later cycle that finds it unchanged delivers no event about it.
AdditionScenario ==
    \A p \in {q \in Paths : TypeOf(q) = "command"} :
        /\ ( /\ watch.pc = "sleep"
             /\ env_left = watch.env0
             /\ p \in DOMAIN watch.current_files \ DOMAIN watch.known0
             /\ HeaderOf(fs, p) # EmptyMeta
             /\ DictGet(HeaderOf(fs, p), "id", "-") = "a" )
           => ExactlyOne(watch_log, p, AgentChangeEvent("added", "a", TypeOf(p), p))
        /\ ( /\ watch.pc = "new_ret"
             /\ env_left = watch.env0
             /\ load["watch"].pc = "emit"
             /\ load["watch"].cbidx = 1
             /\ load["watch"].path = p )
           => /\ p \in Keys(metadata_cache)
              /\ metadata_cache[Lookup(metadata_cache, p)].meta = HeaderOf(fs, p)
        /\ ( /\ watch.pc = "sleep"
             /\ p \in DOMAIN watch.current_files
             /\ p \in DOMAIN watch.known0
             /\ watch.current_files[p] = watch.known0[p] )
           => NoEventFor(watch_log, p)

\* C5: Scenario modification. A file declaring id "a" that the watcher has
\* reported and that a poll cycle finds with a strictly later modification time,
\* and that does not change during the cycle, gets exactly one event
\* (modified, "a", category, path) delivered to every subscriber in that cycle,
\* and no added event.
ModificationScenario ==
    \A p \in Paths :
        ( /\ watch.pc = "sleep"
          /\ env_left = watch.env0
          /\ p \in DOMAIN watch.reported0
          /\ p \in DOMAIN watch.current_files
          /\ p \in DOMAIN watch.known0
          /\ watch.current_files[p] > watch.known0[p]
          /\ watch.current_files[p] > watch.reported0[p]
          /\ DictGet(HeaderOf(fs, p), "id", "-") = "a" )
        => ExactlyOne(watch_log, p, AgentChangeEvent("modified", "a", TypeOf(p), p))

\* C6: Scenario removal. A file that was watched and whose cached header
\* declared id "a" when it was deleted gets, in the poll cycle that finds it
\* gone, exactly one event (removed, "a", category, path) delivered to every
\* subscriber, and at the end of that cycle neither map holds its path.
RemovalScenario ==
    \A p \in Paths :
        ( /\ watch.pc = "sleep"
          /\ env_left = watch.env0
          /\ gone[p] = "a"
          /\ p \in DOMAIN watch.known0
          /\ p \notin DOMAIN watch.current_files )
        => /\ ExactlyOne(watch_log, p, AgentChangeEvent("removed", "a", TypeOf(p), p))
           /\ p \notin Keys(metadata_cache)
           /\ p \notin DOMAIN mtime_cache

\* C7: a call of reload_agent that returns a descriptor has delivered exactly one
\* event about the matched file to every subscriber, of kind modified if the
\* header of the file was cached when the call began and of kind added if not.
ReloadEventKind ==
    ( /\ reload.pc = "done"
      /\ reload.result = "agent" )
    => ExactlyOne(reload_log, reload.agent.source_file,
                  AgentChangeEvent(IF reload.agent.source_file \in reload.cached0
                                   THEN "modified" ELSE "added",
                                   reload.agent.id, reload.agent.type,
                                   reload.agent.source_file))

\* C8: a call of reload_agent(id) during which the tree did not change and no
\* scan ran returns a descriptor with that identifier whenever some existing
\* file resolves to it, be it by its header or by its filename stem, cached or not.
ReloadFinds ==
    ( /\ reload.pc = "done"
      /\ reload.stamp0 = ReloadStamp
      /\ reload.stamp0.idle
      /\ \E p \in Paths : Resolves(fs, p, reload.agent_id) )
    => /\ reload.result = "agent"
       /\ reload.agent.id = reload.agent_id

\* C9: after scan_all has returned a descriptor with identifier X for a file and
\* the file has been rewritten with another header that still declares X (with or
\* without a later modification time), a call of reload_agent(X) returns the
\* descriptor of the new content, and a get for the path then returns the new
\* header mapping.
ReloadRefreshes ==
    \A p \in Paths :
        ( /\ reload.pc = "done"
          /\ reload.stamp0 = ReloadStamp
          /\ reload.stamp0.idle
          /\ scan_result # <<>>
          /\ \E d \in Range(scan_result[Len(scan_result)].agents) :
                /\ d.source_file = p
                /\ d.id = reload.agent_id
                /\ d.metadata # HeaderOf(fs, p)
          /\ \A q \in Paths : Resolves(fs, q, reload.agent_id) <=> q = p )
        => /\ reload.result = "agent"
           /\ reload.agent = AgentOf(p, TypeOf(p), HeaderOf(fs, p))
           /\ get_cached_metadata(metadata_cache, mtime_cache, fs, p).res = "hit"
           /\ get_cached_metadata(metadata_cache, mtime_cache, fs, p).meta = HeaderOf(fs, p)

\* C10: Idempotence. Two successive calls of scan_all, with no change of the tree
\* and no other operation from the start of the first to the end of the second,
\* return the same set of descriptors and leave the cache with the same number
\* of entries.
ScanIdempotent ==
    \A k \in 1..(Len(scan_result) - 1) :
        scan_result[k].started = scan_result[k + 1].ended
        => /\ Range(scan_result[k].agents) = Range(scan_result[k + 1].agents)
           /\ scan_result[k].size = scan_result[k + 1].size

\* C11: No redundant re-read. When a scanner loads a path that has a cache entry
\* and the file's modification time is the one stored when the entry was
\* written, the load uses the cached mapping and reads no file; this holds as
\* well when the cached mapping is empty (no header, malformed header).
NoRedundantReread ==
    \A c \in Cats :
        LET g == load[c].got
        IN (g.called /\ g.entry /\ g.indexed /\ g.current # 0 /\ g.stored = g.current)
           => /\ g.res = "hit"
              /\ g.meta = g.cached
              /\ load[c].pc = "ret"
              /\ load[c].outcome = "-"
              /\ load[c].result = "agent"
              /\ load[c].agent = AgentOf(load[c].path, c, g.cached)

\* C11 witness: a scanner has loaded a headerless file from its empty cached
\* mapping, without a read
NoRedundantRereadWitness ==
    \E c \in Cats :
        /\ load[c].got.called
        /\ load[c].got.res = "hit"
        /\ load[c].got.cached = EmptyMeta
        /\ load[c].got.stored = load[c].got.current
        /\ fs[load[c].path].content.kind \in {"nohdr", "badyaml"}
        /\ load[c].outcome = "-"
        /\ load[c].pc = "ret"

\* C12: Partial-failure isolation. scan_all never raises; a category whose root
\* directory is missing or cannot be listed, or whose scanner was left by an
\* exception, contributes no descriptor; every descriptor that the scanner of
\* another category collected is in the result; and the first scan of a tree
\* that no other process has changed returns the descriptor of every file of
\* the categories whose root can be listed.
PartialFailureIsolation ==
    \A k \in 1..Len(scan_result) :
        LET r == scan_result[k]
        IN /\ ~r.error
           /\ \A c \in Cats : (dirs[c] # "ok" \/ c \in r.raised)
                                => \A d \in Range(r.agents) : d.type # c
           /\ \A c \in Cats : (dirs[c] = "ok" /\ c \notin r.raised)
                                => Range(r.parts[c]) \subseteq Range(r.agents)
           /\ (k = 1 /\ env_left = DirsEnvSteps)
              => \A p \in Paths : (Exists(fs, p) /\ dirs[TypeOf(p)] = "ok")
                                   => AgentOf(p, TypeOf(p), HeaderOf(fs, p)) \in Range(r.agents)

\* C12 witness: scan_all has returned the descriptor of a command although the
\* scanner of the skills raised and the root of the agents is missing
PartialFailureIsolationWitness ==
    \E k \in 1..Len(scan_result) :
        /\ "skill" \in scan_result[k].raised
        /\ dirs["agent"] = "missing"
        /\ \E d \in Range(scan_result[k].agents) : d.type = "command"

\* the paths of the candidates a scanner has loaded, in the order of the loads
SeenPaths(sc) == [k \in 1..Len(sc.seen) |-> sc.seen[k].path]

\* C13: in the scan of a category whose root can be listed, a candidate whose
\* read fails (permission denied, no such file any more, not UTF-8) gives no
\* descriptor and no cache entry, no exception leaves the scanner, and the
\* scanner goes on: every candidate of a flat category is loaded, and each
\* candidate that is found cached or is read and parsed gives its descriptor.
UnreadableSkipped ==
    \A c \in Cats :
        (scan[c].pc = "done" /\ dirs[c] = "ok")
        => /\ ~scan[c].raised
           /\ c # "skill" => SeenPaths(scan[c]) = scan[c].listed
           /\ \A k \in 1..Len(scan[c].seen) :
                LET e == scan[c].seen[k]
                    ds == {d \in Range(scan[c].agents) : d.source_file = e.path}
                IN /\ e.outcome \in {"denied", "enoent", "decode"}
                      => /\ ds = {}
                         /\ e.path \notin Keys(metadata_cache)
                   /\ (e.got = "hit" \/ (e.outcome = "content" /\ e.kind # "badvalue"))
                      => ds # {}

\* C13 witness: a scanner has ended after a candidate whose read was denied and
\* a later candidate that gave its descriptor
UnreadableSkippedWitness ==
    \E c \in Cats :
        /\ scan[c].pc = "done"
        /\ Len(scan[c].seen) = 2
        /\ scan[c].seen[1].outcome = "denied"
        /\ scan[c].seen[2].outcome = "content"
        /\ \E d \in Range(scan[c].agents) : d.source_file = scan[c].seen[2].path

\* the value the descriptor must carry for a header field: the header's value
\* if it is present and a string, else the default
FieldOr(h, key, default) == IF key \in DOMAIN h /\ IsStr(h[key]) THEN h[key] ELSE default

\* C14: Descriptor field fallback. In every descriptor that scan_all returns, id
\* and name are the header's value when that is present and a string and the
\* file's stem when it is missing, null or not a string; description is the
\* header's string value or the empty string; so the id is always a string.
FieldFallback ==
    \A k \in 1..Len(scan_result) :
        \A d \in Range(scan_result[k].agents) :
            /\ d.id = FieldOr(d.metadata, "id", Stem(d.source_file))
            /\ d.name = FieldOr(d.metadata, "name", Stem(d.source_file))
            /\ d.description = FieldOr(d.metadata, "description", "")
            /\ IsStr(d.id)

\* C15: Scenario malformed header. A file that is read and whose header body
\* cannot be parsed is cached as an empty mapping and gives a descriptor whose
\* id is the file's stem; the scan of its category returns exactly one
\* descriptor for it, and no exception leaves the scanner.
MalformedHeader ==
    \A c \in Cats :
        /\ ( /\ load[c].pc = "ret"
             /\ load[c].outcome = "content"
             /\ load[c].content.kind \in {"badyaml", "badvalue"} )
           => /\ load[c].result = "agent"
              /\ load[c].agent.id = Stem(load[c].path)
              /\ load[c].path \in Keys(metadata_cache)
              /\ metadata_cache[Lookup(metadata_cache, load[c].path)].meta = EmptyMeta
        /\ scan[c].pc = "done"
           => /\ ~scan[c].raised
              /\ \A k \in 1..Len(scan[c].seen) :
                    ( /\ scan[c].seen[k].outcome = "content"
                      /\ scan[c].seen[k].kind \in {"badyaml", "badvalue"} )
                    => Cardinality({j \in 1..Len(scan[c].agents) :
                                      scan[c].agents[j].source_file = scan[c].seen[k].path}) = 1

\* C20: Descriptor identifiers are unique within their category. In the result
\* of a scan no two descriptors of the same category carry the same id, also
\* when the headers of two files declare the same id or the id one file
\* declares is the stem of another.
UniqueIds ==
    \A k \in 1..Len(scan_result) :
        LET ds == scan_result[k].agents
        IN \A i, j \in 1..Len(ds) : (i < j /\ ds[i].type = ds[j].type) => ds[i].id # ds[j].id

\* the deliveries of the log are whole rounds: the k-th delivery goes to
\* subscriber ((k - 1) mod n) + 1 and carries the event the round began with
InRounds(log) ==
    \A k \in 1..Len(log) :
        /\ log[k].sub = ((k - 1) % Len(callbacks)) + 1
        /\ log[k].ev = log[k - (log[k].sub - 1)].ev

\* C16: EventBus dispatch. Every event that the watcher or reload_agent emits is
\* delivered to every registered subscriber exactly once, in registration order:
\* a subscriber that raises does not keep the later subscribers from the event
\* nor anyone from later events, does not stop the watcher and does not make
\* reload_agent raise.
EventBusDispatch ==
    /\ InRounds(watch_log)
    /\ InRounds(reload_log)
    /\ load["watch"].pc \notin {"emit", "cb"} => Len(watch_log) % Len(callbacks) = 0
    /\ load["reload"].pc \notin {"emit", "cb"} => Len(reload_log) % Len(callbacks) = 0
    /\ watch.pc # "stopped"
    /\ reload.pc = "done" => reload.result # "raise"

\* C17: the watcher leaves Running only through explicit cancellation. In runs
\* in which the stop signal is never set and the task is never cancelled, no
\* fault of the file system in a poll cycle (a file vanishing between the walk
\* and its stat, a file that may not be read, a file that is not UTF-8) ends
\* the polling loop.
WatcherKeepsRunning == ~stop_event => watch.pc # "stopped"

\* C18: cancellation of the watcher is cooperative. When the loop has exited,
\* by the stop signal or by cancelling the task, the cycle it had begun is
\* complete: no path that the cycle found new, modified or removed is left
\* without its event, and no event is delivered to only some subscribers.
CooperativeStop ==
    watch.pc = "stopped"
    => /\ NewAt(watch, 1) = {}
       /\ ModAt(watch, 1) = {}
       /\ watch.removed = {}
       /\ Len(watch_log) % Len(callbacks) = 0

\* C19: each subscriber receives events one at a time. No subscriber is called
\* with an event while its call for an earlier event has not returned, in
\* particular not a coroutine subscriber that the watcher is awaiting when
\* reload_agent emits.
OneAtATime ==
    \A t, u \in Tasks :
        (t # u /\ load[t].pc = "cb" /\ load[u].pc = "cb") => load[t].cbidx # load[u].cbidx

\* the glyph and the color of the descriptor are those of its category, and it
\* is enabled
Presented(d) ==
    /\ d.enabled
    /\ d.type \in Cats
    /\ d.type = "command" => d.emoji = "memo" /\ d.color = "#3498db"
    /\ d.type = "skill" => d.emoji = "target" /\ d.color = "#9b59b6"
    /\ d.type = "agent" => d.emoji = "robot" /\ d.color = "#2ecc71"

\* C21: the icon glyph and the accent color of every descriptor are those the
\* fixed table gives for its category (command, skill, agent), whatever the
\* header holds, keys named emoji or color included, and the descriptor is
\* enabled; the category is that of the directory the file lies in.
PresentationByCategory ==
    /\ \A t \in Tasks : load[t].result = "agent" => Presented(load[t].agent)
    /\ \A k \in 1..Len(scan_result) :
          \A d \in Range(scan_result[k].agents) :
              /\ Presented(d)
              /\ d.type = TypeOf(d.source_file)

\* C21 witness: scan_all has returned a descriptor for each of the three
\* categories, each from a header that names an emoji, a color and enabled
PresentationByCategoryWitness ==
    \E k \in 1..Len(scan_result) :
        \A c \in Cats :
            \E d \in Range(scan_result[k].agents) :
                /\ d.type = c
                /\ {"emoji", "color", "enabled"} \subseteq DOMAIN d.metadata

\* C22: extract_frontmatter never raises; it reports not-found (the load then
\* goes on with an empty mapping) exactly when the text does not begin with the
\* delimiter, has no closing delimiter, has an empty or blank body, or has a
\* body that cannot be parsed or is not a mapping; in every other case it
\* returns the mapping of the body.
ParseContract ==
    \A c \in Cats :
        (load[c].pc = "ret" /\ load[c].outcome = "content")
        => /\ load[c].result = "agent"
           /\ load[c].content.kind = "hdr" => load[c].agent.metadata = load[c].content.meta
           /\ load[c].content.kind # "hdr" => load[c].agent.metadata = EmptyMeta

\* C23: on the first poll cycle of the watcher the previous snapshot is empty:
\* every monitored file that existed when the watcher started, and that the
\* first cycle finds and that does not change during it, gets exactly one added
\* event delivered to every subscriber in that cycle.
FirstPollReportsExisting ==
    \A p \in Paths :
        ( /\ watch.pc = "sleep"
          /\ watch.cycles = WatchCycles - 1
          /\ env_left = watch.env0
          /\ p \in DOMAIN watch.known0
          /\ p \in DOMAIN watch.current_files )
        => ExactlyOne(watch_log, p,
                      AgentChangeEvent("added", AgentOf(p, TypeOf(p), HeaderOf(fs, p)).id,
                                       TypeOf(p), p))

\* C24: the snapshot used for diffing is the immediately preceding one. When a
\* poll cycle has ended and the task sleeps, the stored previous state
\* (known_files) is, for every path, exactly the path-to-modification-time
\* mapping that the cycle captured (current_files), also for paths that
\* produced no event and for paths whose modification time went down.
SnapshotSuperseded == watch.pc = "sleep" => watch.known_files = watch.current_files

\* C25: a file that the snapshot diff of a poll cycle finds new (present now,
\* not before) is reported with kind added, also when a concurrent scan_all or
\* reload_agent has cached its header before the watcher loads it: every event
\* the cycle delivers about such a path is an added event.
AddedWhateverCached ==
    \A k \in 1..Len(watch_log) :
        LET ev == watch_log[k].ev
        IN (ev.source_file \in DOMAIN watch.current_files \ DOMAIN watch.known0)
           => ev.event_type = "added"

\* C26: the removed event for a path carries the identifier last known for it:
\* that of the latest descriptor the watcher built and reported for the path,
\* also when the cache entry of the path has meanwhile been evicted; the stem
\* of the file is used only for a path the watcher never loaded.
RemovedCarriesLastId ==
    ( /\ watch.pc = "rem_ret"
      /\ load["watch"].event.event_type = "removed" )
    => LET p == load["watch"].event.source_file
       IN load["watch"].event.agent_id = DictGet(watch.ids, p, Stem(p))

\* C27: a cache entry is deleted when its file disappears. With the watcher
\* running, once a poll cycle that began after the file had disappeared has
\* completed and no load of the path is in flight in any task, neither the
\* header map nor the modification-time index holds the path.
EntryDeletedWithFile ==
    \A p \in Paths :
        ( /\ watch.pc = "sleep"
          /\ env_left = watch.env0
          /\ ~Exists(fs, p)
          /\ \A t \in Tasks : load[t].path # p )
        => /\ p \notin Keys(metadata_cache)
           /\ p \notin DOMAIN mtime_cache

\* C28: cache mutations are serialized. Each put with its eviction, each
\* eviction of a stale entry inside get and each invalidation is done before
\* another task runs: at no point of any interleaving of scan_all, reload_agent
\* and the watcher does the modification-time index hold a path that the header
\* map does not hold, which is what a task would see between the two steps of
\* an eviction or an invalidation; and the header map is in insertion order.
SerializedMutations ==
    /\ DOMAIN mtime_cache \subseteq Keys(metadata_cache)
    /\ KeyOrder(metadata_cache) = ins_hist

\* C28 witness: a put has evicted an entry, and the watcher, having invalidated
\* the entry of a modified file, waits for its read while a scanner or
\* reload_agent has a load in flight
SerializedMutationsWitness ==
    /\ evict.path # "-"
    /\ watch.pc = "mod_ret"
    /\ load["watch"].pc \in {"read", "resume"}
    /\ \E t \in Tasks \ {"watch"} : load[t].pc \in {"read", "resume"}

\* C29: once the stop signal is set the watcher begins no new poll cycle, and
\* it reaches Stopped after at most the cycle in progress and its sleep,
\* provided the subscribers return; once stopped it stays stopped and delivers
\* no further event.
StopHonoured ==
    /\ [][stop_event => watch'.cycles = watch.cycles]_vars
    /\ [][watch.pc = "stopped" => (watch'.pc = "stopped" /\ watch_log' = watch_log)]_vars
    /\ (stop_event ~> watch.pc = "stopped")

\* C29 witness: the stop signal was set, the loop was left at its top by the
\* test of the signal, after a poll cycle that delivered events
StopHonouredWitness ==
    /\ stop_event
    /\ watch.pc = "stopped"
    /\ watch.how = "signal"
    /\ watch.cycles < StopCycles
    /\ watch_log # <<>>

\* C30: the events of the watcher about a path are well-formed over time: when
\* the watcher emits a removed or a modified event about a path, it has
\* emitted an added event about that path before, with no removed event about
\* it in between; also for files that existed when the watcher started.
EventsWellFormed ==
    ( /\ load["watch"].pc \in {"emit", "cb"}
      /\ load["watch"].event.event_type \in {"removed", "modified"} )
    => load["watch"].event.source_file \in watch.added

\* rank of the loop of the poll cycle that handles path p: 1 for a path that is
\* present now and was not before, 2 for one present before and now, 3 for
\* one present before and not now
LoopOf(p) ==
    CASE p \notin DOMAIN watch.known0 -> 1
      [] p \in DOMAIN watch.current_files -> 2
      [] OTHER -> 3

\* C31: within one poll cycle the watcher emits at most one event per path
\* (each subscriber is delivered at most one event about a path), and the
\* events about newly appeared paths come before those about modified paths,
\* which come before those about removed paths.
OneEventPerPathInOrder ==
    /\ \A p \in Paths : \A i \in 1..Len(callbacks) : Len(Delivered(watch_log, p, i)) <= 1
    /\ \A k, j \in 1..Len(watch_log) :
          k < j => LoopOf(watch_log[k].ev.source_file) <= LoopOf(watch_log[j].ev.source_file)

\* C31 witness: a poll cycle has delivered to the first subscriber an event
\* about a modified path and then an event about a removed path
OneEventPerPathInOrderWitness ==
    \E k, j \in 1..Len(watch_log) :
        /\ k < j
        /\ watch_log[k].sub = 1
        /\ watch_log[j].sub = 1
        /\ LoopOf(watch_log[k].ev.source_file) = 2
        /\ watch_log[j].ev.event_type = "removed"

\* C32: in every reachable state the header map and the modification-time
\* index have the same key set: every cached path has a recorded modification
\* time and every recorded modification time belongs to a cached path, also
\* when a file is deleted between its read and the stat() of the put.
SameKeySet == Keys(metadata_cache) = DOMAIN mtime_cache

\* C33: get_cached_metadata always ends in a hit or a miss and never raises, in
\* every cache state that scans reach while other processes create, rewrite
\* and delete files; in particular for a cached path whose modification time
\* was never recorded.
GetNeverRaises ==
    \A t \in Tasks : load[t].got.called => load[t].got.res \in {"hit", "miss"}

\* C34: a cache entry is never stale with respect to its own timestamp. Whenever
\* get_cached_metadata returns a hit for a path, the mapping it returns is the
\* header of the version of the file whose modification time is stored in the
\* entry, also when the file was rewritten between the read of a load and the
\* put that recorded the modification time.
HitMatchesTimestamp ==
    \A t \in Tasks :
        (load[t].got.called /\ load[t].got.res = "hit")
        => load[t].got.meta = VersionText(load[t].got.stored).meta

\* what a scan of the tree returns when every file is read and parsed
Uncached(f) == {AgentOf(p, TypeOf(p), HeaderOf(f, p)) : p \in {q \in Paths : Exists(f, q)}}

\* C35: the cache is a pure optimisation. Over a tree of readable files that
\* does not change, the set of descriptors scan_all returns is, for every
\* cache_max_size (0 and 1 included), the set it would return with no cache:
\* the descriptor of every file, each built from the header of its text.
CacheIsOptimisation ==
    \A k \in 1..Len(scan_result) : Range(scan_result[k].agents) = Uncached(fs)

\* C36: a put evicts only to make room. A put for a path that already has a
\* cache entry (two tasks have loaded the same path at once) replaces that
\* entry and leaves the entry of every other path in the cache, also when the
\* cache is at capacity.
PutKeepsOthers ==
    [][\A t \in Tasks :
          ( /\ load[t].pc = "resume"
            /\ load[t].outcome = "content"
            /\ load[t].path \in Keys(metadata_cache)
            /\ load'[t].pc # "resume"
            /\ load'[t].result = "agent" )
          => Keys(metadata_cache) \subseteq Keys(metadata_cache')]_vars

====
